---- MODULE Spec2Model ----
(***************************************************************************)
(* Model of the voxfile decoder: the nom-based chunk-frame reader          *)
(* (parse_chunk), the per-tag payload decoders, and the assembly pass of   *)
(* parse_file that folds MAIN's children into a VoxFile.                    *)
(*                                                                         *)
(* Bytes are integers 0..255, byte slices are sequences.  A decoded f32 is *)
(* represented by its 32-bit pattern (f32::from_bits of that number).      *)
(* A String is represented by its UTF-8 bytes.  A u32 is the pair          *)
(* <<high 16 bits, low 16 bits>>, so that all 2^32 values are covered.     *)
(***************************************************************************)
EXTENDS Integers, Sequences, FiniteSets, TLC

----------------------------------------------------------------------------
(* Bounds of the explored input space *)

\* most chunk frames in one input file, the root not counted
MaxFrames == 4
\* the same for the files that nest chunk frames
MaxNested == 3
\* most children ranges open at once (1 = only the root's range)
MaxDepth == 3
\* longest MATT payload a decoder is called on by itself
MaxMattLen == 48
\* most entries of a Dictionary payload a decoder is called on by itself
MaxPairs == 2
\* largest small declared length of a String payload a decoder is called on
MaxStrLen == 5

----------------------------------------------------------------------------
(* nom results: IResult<&[u8], T>                                          *)
(*                                                                         *)
(* A decoder is a chain of `let (input, x) = f(input)?;` lines.  Such a    *)
(* chain is written here inside out: Start(input) is the cursor before the *)
(* first line, then_f(p) is the cursor p after one more line that calls f, *)
(* and the cursor's val lists the values bound so far.  An error ends the  *)
(* chain: every then_f passes a failed cursor on unchanged.                *)

Ok(rest, val) == [ok |-> TRUE, rest |-> rest, val |-> val]
Err(kind) == [ok |-> FALSE, err |-> kind]

None == <<>>
Some(v) == <<v>>

Drop(s, n) == SubSeq(s, n + 1, Len(s))

Start(input) == Ok(input, <<>>)

\* `let (input, x) = r?;` after the lines that led to the cursor p
bind(p, r) == IF ~r.ok THEN r ELSE Ok(r.rest, Append(p.val, r.val))

\* the value bound last
last(p) == IF ~p.ok THEN p ELSE Ok(p.rest, p.val[Len(p.val)])

\* nom::bytes::complete::take
take(n, input) ==
    IF Len(input) < n THEN Err("Eof")
    ELSE Ok(Drop(input, n), SubSeq(input, 1, n))

\* nom::bytes::complete::tag
tag(t, input) ==
    IF Len(input) >= Len(t) /\ SubSeq(input, 1, Len(t)) = t
    THEN Ok(Drop(input, Len(t)), t)
    ELSE Err("Tag")

le_u8(input) ==
    IF Len(input) < 1 THEN Err("Eof") ELSE Ok(Drop(input, 1), input[1])

\* a u32 given by a number below 2^31
U32(n) == <<n \div 65536, n % 65536>>

\* `as usize`: every length of 2^31 - 1 or more is taken as 2^31 - 1, which
\* is more than any slice here holds
usize(v) == IF v[1] >= 32768 THEN 2147483647 ELSE v[1] * 65536 + v[2]

le_u32(input) ==
    IF Len(input) < 4 THEN Err("Eof")
    ELSE Ok(Drop(input, 4),
            <<input[3] + 256 * input[4], input[1] + 256 * input[2]>>)

\* le_f32: the value is kept as its bit pattern
le_f32(input) == le_u32(input)

le_i32(input) ==
    IF Len(input) < 4 THEN Err("Eof")
    ELSE Ok(Drop(input, 4),
            IF input[4] >= 128
            THEN (input[3] + 256 * input[4] - 65536) * 65536
                    + input[1] + 256 * input[2]
            ELSE (input[3] + 256 * input[4]) * 65536
                    + input[1] + 256 * input[2])

then_u32(p) == IF ~p.ok THEN p ELSE bind(p, le_u32(p.rest))
then_f32(p) == IF ~p.ok THEN p ELSE bind(p, le_f32(p.rest))
then_i32(p) == IF ~p.ok THEN p ELSE bind(p, le_i32(p.rest))

\* take(n) where n is the k-th value bound so far
then_take(p, k) == IF ~p.ok THEN p ELSE bind(p, take(usize(p.val[k]), p.rest))

\* std::str::from_utf8: TRUE iff the bytes are well-formed UTF-8
RECURSIVE from_utf8(_)
from_utf8(b) ==
    LET cont(i) == i <= Len(b) /\ b[i] >= 128 /\ b[i] <= 191
        in(i, lo, hi) == i <= Len(b) /\ b[i] >= lo /\ b[i] <= hi
    IN
    IF Len(b) = 0 THEN TRUE
    ELSE IF b[1] <= 127 THEN from_utf8(Drop(b, 1))
    ELSE IF b[1] >= 194 /\ b[1] <= 223
        THEN cont(2) /\ from_utf8(Drop(b, 2))
    ELSE IF b[1] = 224
        THEN in(2, 160, 191) /\ cont(3) /\ from_utf8(Drop(b, 3))
    ELSE IF (b[1] >= 225 /\ b[1] <= 236) \/ b[1] = 238 \/ b[1] = 239
        THEN cont(2) /\ cont(3) /\ from_utf8(Drop(b, 3))
    ELSE IF b[1] = 237
        THEN in(2, 128, 159) /\ cont(3) /\ from_utf8(Drop(b, 3))
    ELSE IF b[1] = 240
        THEN in(2, 144, 191) /\ cont(3) /\ cont(4) /\ from_utf8(Drop(b, 4))
    ELSE IF b[1] >= 241 /\ b[1] <= 243
        THEN cont(2) /\ cont(3) /\ cont(4) /\ from_utf8(Drop(b, 4))
    ELSE IF b[1] = 244
        THEN in(2, 128, 143) /\ cont(3) /\ cont(4) /\ from_utf8(Drop(b, 4))
    ELSE FALSE

\* map_res_utf8 that takes any bytes as text
map_res_utf8_lossy(r) == r

\* map_res(_, std::str::from_utf8) applied to the result r of a take
map_res_utf8(r) ==
    IF ~r.ok THEN r
    ELSE IF ~from_utf8(r.val) THEN Err("MapRes")
    ELSE r

\* map_res(take(n), std::str::from_utf8)
take_str(n, input) == map_res_utf8(take(n, input))

----------------------------------------------------------------------------
(* Payload decoders *)

\* the string bytes, their length being the value bound first
then_str_bytes(p) ==
    IF ~p.ok THEN p ELSE bind(p, take_str(usize(p.val[1]), p.rest))

parse_STRING(input) == last(then_str_bytes(then_u32(Start(input))))

then_STRING(p) == IF ~p.ok THEN p ELSE bind(p, parse_STRING(p.rest))

\* count(parse_STRING, n): n applications, the first error aborts
RECURSIVE count_STRING(_, _, _)
RECURSIVE count_STRING_next(_, _, _)
count_STRING(n, input, acc) ==
    IF n = 0 THEN Ok(input, acc)
    ELSE count_STRING_next(n, acc, parse_STRING(input))
count_STRING_next(n, acc, r) ==
    IF ~r.ok THEN r ELSE count_STRING(n - 1, r.rest, Append(acc, r.val))

\* tuple((parse_STRING, parse_STRING))
string_pair(input) == then_STRING(then_STRING(Start(input)))

\* count(tuple((parse_STRING, parse_STRING)), n)
RECURSIVE count_pairs(_, _, _)
RECURSIVE count_pairs_next(_, _, _)
count_pairs(n, input, acc) ==
    IF n = 0 THEN Ok(input, acc)
    ELSE count_pairs_next(n, acc, string_pair(input))
count_pairs_next(n, acc, r) ==
    IF ~r.ok THEN r ELSE count_pairs(n - 1, r.rest, Append(acc, r.val))

\* Dict::from_iter on a HashMap: one value per key, a later pair replaces
\* an earlier one with the same key
FromIter(entries) ==
    LET keys == {entries[i][1] : i \in DOMAIN entries}
        last_of(k) == CHOOSE i \in DOMAIN entries :
                        /\ entries[i][1] = k
                        /\ \A j \in DOMAIN entries : entries[j][1] = k => j <= i
    IN [k \in keys |-> entries[last_of(k)][2]]

\* the entries, their number being the value bound first
then_entries(p) ==
    IF ~p.ok THEN p ELSE bind(p, count_pairs(usize(p.val[1]), p.rest, <<>>))

dict_of(p) == IF ~p.ok THEN p ELSE Ok(p.rest, FromIter(p.val[2]))

parse_DICT(input) == dict_of(then_entries(then_u32(Start(input))))

then_DICT(p) == IF ~p.ok THEN p ELSE bind(p, parse_DICT(p.rest))

\* count(parse_DICT, n)
RECURSIVE count_DICT(_, _, _)
RECURSIVE count_DICT_next(_, _, _)
count_DICT(n, input, acc) ==
    IF n = 0 THEN Ok(input, acc)
    ELSE count_DICT_next(n, acc, parse_DICT(input))
count_DICT_next(n, acc, r) ==
    IF ~r.ok THEN r ELSE count_DICT(n - 1, r.rest, Append(acc, r.val))

\* count(le_u8, n): each application reads exactly 1 byte and fails only
\* when none is left, so the n-th fails iff fewer than n bytes are in the
\* input
count_u8(n, input) ==
    IF Len(input) < n THEN Err("Eof")
    ELSE Ok(Drop(input, n), SubSeq(input, 1, n))

\* count(le_u32, n): likewise with 4 bytes
count_u32(n, input) ==
    IF Len(input) \div 4 < n THEN Err("Eof")
    ELSE Ok(Drop(input, n * 4),
            [k \in 1..n |-> le_u32(SubSeq(input, (k - 1) * 4 + 1, k * 4)).val])

parse_PACK(input) == le_u32(input)

size_of(p) ==
    IF ~p.ok THEN p
    ELSE Ok(p.rest, [x |-> p.val[1], y |-> p.val[2], z |-> p.val[3]])

parse_SIZE(input) == size_of(then_u32(then_u32(then_u32(Start(input)))))

voxel(input) ==
    IF Len(input) < 4 THEN Err("Eof")
    ELSE Ok(Drop(input, 4),
            [x |-> input[1], y |-> input[2], z |-> input[3], i |-> input[4]])

\* count(the voxel closure, n): each application reads exactly 4 bytes
count_voxel(n, input) ==
    IF Len(input) \div 4 < n THEN Err("Eof")
    ELSE Ok(Drop(input, n * 4),
            [k \in 1..n |-> voxel(SubSeq(input, (k - 1) * 4 + 1, k * 4)).val])

then_voxels(p) ==
    IF ~p.ok THEN p ELSE bind(p, count_voxel(usize(p.val[1]), p.rest))

parse_XYZI(input) == last(then_voxels(then_u32(Start(input))))

color(input) ==
    IF Len(input) < 4 THEN Err("Eof")
    ELSE Ok(Drop(input, 4),
            [name |-> None, r |-> input[1], g |-> input[2],
             b |-> input[3], a |-> input[4]])

\* count(the colour closure, n): each application reads exactly 4 bytes
count_color(n, input) ==
    IF Len(input) \div 4 < n THEN Err("Eof")
    ELSE Ok(Drop(input, n * 4),
            [k \in 1..n |-> color(SubSeq(input, (k - 1) * 4 + 1, k * 4)).val])

PaletteLen == 256

parse_RGBA(input) == count_color(PaletteLen, input)

\* map(le_f32, |v| Some(v))
some_f32(r) == IF ~r.ok THEN r ELSE Ok(r.rest, Some(r.val))

\* then_opt_f32 that skips the 4 bytes of a field that is absent
then_opt_f32_skips(p, bit) ==
    IF ~p.ok THEN p
    ELSE IF (p.val[4][2] \div bit) % 2 = 1
    THEN bind(p, some_f32(le_f32(p.rest)))
    ELSE IF Len(p.rest) < 4 THEN Err("Eof")
    ELSE Ok(Drop(p.rest, 4), Append(p.val, None))

\* one optional f32 of parse_MATT: read when `bit` of property_bits, the
\* value bound fourth, is set
then_opt_f32(p, bit) ==
    IF ~p.ok THEN p
    ELSE IF (p.val[4][2] \div bit) % 2 = 1
    THEN bind(p, some_f32(le_f32(p.rest)))
    ELSE Ok(p.rest, Append(p.val, None))

matt_of(p) ==
    IF ~p.ok THEN p
    ELSE Ok(p.rest,
            [id |-> p.val[1], kind |-> p.val[2], weight |-> p.val[3],
             plastic |-> p.val[5], roughness |-> p.val[6],
             specular |-> p.val[7], ior |-> p.val[8],
             attenuation |-> p.val[9], power |-> p.val[10],
             glow |-> p.val[11],
             is_total_power |-> ((p.val[4][2] \div 128) % 2 = 1)])

\* id, kind, weight, property_bits
matt_head(input) == then_u32(then_f32(then_u32(then_u32(Start(input)))))

parse_MATT(input) ==
    matt_of(
      then_opt_f32(
        then_opt_f32(
          then_opt_f32(
            then_opt_f32(
              then_opt_f32(
                then_opt_f32(
                  then_opt_f32(matt_head(input), 1),
                  2),
                4),
              8),
            16),
          32),
        64))

matl_of(p) ==
    IF ~p.ok THEN p ELSE Ok(p.rest, [id |-> p.val[1], properties |-> p.val[2]])

parse_MATL(input) == matl_of(then_DICT(then_u32(Start(input))))

parse_rOBJ(input) == parse_DICT(input)

rcam_of(p) ==
    IF ~p.ok THEN p ELSE Ok(p.rest, [id |-> p.val[1], attributes |-> p.val[2]])

parse_rCAM(input) == rcam_of(then_DICT(then_u32(Start(input))))

parse_IMAP(input) == count_u8(256, input)

then_strings(p) ==
    IF ~p.ok THEN p ELSE bind(p, count_STRING(usize(p.val[1]), p.rest, <<>>))

parse_NOTE(input) == last(then_strings(then_u32(Start(input))))

\* the frames, their number being the value bound sixth
then_frames(p) ==
    IF ~p.ok THEN p ELSE bind(p, count_DICT(usize(p.val[6]), p.rest, <<>>))

ntrn_of(p) ==
    IF ~p.ok THEN p
    ELSE Ok(p.rest,
            [id |-> p.val[1], attrib |-> p.val[2],
             child_node_id |-> p.val[3], reserved_id |-> p.val[4],
             layer_id |-> p.val[5], frames |-> p.val[7]])

parse_nTRN(input) ==
    ntrn_of(
      then_frames(
        then_u32(then_u32(then_i32(then_u32(then_DICT(then_u32(Start(input)))))))))

\* the child ids, their number being the value bound third
then_child_ids(p) ==
    IF ~p.ok THEN p ELSE bind(p, count_u32(usize(p.val[3]), p.rest))

ngrp_of(p) ==
    IF ~p.ok THEN p
    ELSE Ok(p.rest, [id |-> p.val[1], attrib |-> p.val[2], children |-> p.val[4]])

parse_nGRP(input) ==
    ngrp_of(then_child_ids(then_u32(then_DICT(then_u32(Start(input))))))

\* the (model id, attributes) closure of parse_nSHP
shape_model(input) == then_DICT(then_u32(Start(input)))

\* count(that closure, n)
RECURSIVE count_shape_model(_, _, _)
RECURSIVE count_shape_model_next(_, _, _)
count_shape_model(n, input, acc) ==
    IF n = 0 THEN Ok(input, acc)
    ELSE count_shape_model_next(n, acc, shape_model(input))
count_shape_model_next(n, acc, r) ==
    IF ~r.ok THEN r ELSE count_shape_model(n - 1, r.rest, Append(acc, r.val))

\* the models, their number being the value bound third
then_shape_models(p) ==
    IF ~p.ok THEN p
    ELSE bind(p, count_shape_model(usize(p.val[3]), p.rest, <<>>))

nshp_of(p) ==
    IF ~p.ok THEN p
    ELSE Ok(p.rest, [id |-> p.val[1], attrib |-> p.val[2], models |-> p.val[4]])

parse_nSHP(input) ==
    nshp_of(then_shape_models(then_u32(then_DICT(then_u32(Start(input))))))

layr_of(p) ==
    IF ~p.ok THEN p
    ELSE Ok(p.rest,
            [id |-> p.val[1], attributes |-> p.val[2], reserved |-> p.val[3]])

parse_LAYR(input) == layr_of(then_i32(then_DICT(then_u32(Start(input)))))

----------------------------------------------------------------------------
(* Chunk-frame reader *)

TagMAIN == <<77, 65, 73, 78>>
TagPACK == <<80, 65, 67, 75>>
TagSIZE == <<83, 73, 90, 69>>
TagXYZI == <<88, 89, 90, 73>>
TagRGBA == <<82, 71, 66, 65>>
TagMATT == <<77, 65, 84, 84>>
TagMATL == <<77, 65, 84, 76>>
TagrOBJ == <<114, 79, 66, 74>>
TagrCAM == <<114, 67, 65, 77>>
TagIMAP == <<73, 77, 65, 80>>
TagNOTE == <<78, 79, 84, 69>>
TagnTRN == <<110, 84, 82, 78>>
TagnGRP == <<110, 71, 82, 80>>
TagnSHP == <<110, 83, 72, 80>>
TagLAYR == <<76, 65, 89, 82>>

\* "VOX "
MAGIC_NUMBER == <<86, 79, 88, 32>>

Chunk(kind, val) == [kind |-> kind, val |-> val]

\* map_res(take(4usize), std::str::from_utf8)
then_kind(p) == IF ~p.ok THEN p ELSE bind(p, take_str(4, p.rest))

\* kind, content_size, children_size, chunk_content, child_content
header_and_slices(input) ==
    then_take(then_take(then_u32(then_u32(then_kind(Start(input)))), 2), 3)

\* the remainder starts at the children range instead of after it
slices_keep_children(p) ==
    IF ~p.ok THEN p
    ELSE Ok(p.val[5] \o p.rest,
            [kind |-> p.val[1],
             content_size |-> usize(p.val[2]),
             children_size |-> usize(p.val[3]),
             chunk_content |-> p.val[4],
             child_content |-> p.val[5]])

\* the five values as parse_chunk names them; the remainder is what
\* follows the children range
slices(p) ==
    IF ~p.ok THEN p
    ELSE Ok(p.rest,
            [kind |-> p.val[1],
             content_size |-> usize(p.val[2]),
             children_size |-> usize(p.val[3]),
             chunk_content |-> p.val[4],
             child_content |-> p.val[5]])

chunk_slices(input) == slices(header_and_slices(input))

\* Chunk::X(parse_X(chunk_content)?.1)
decoded(kind, r) == IF ~r.ok THEN r ELSE Ok(<<>>, Chunk(kind, r.val))

\* the match on the tag
dispatch(kind, chunk_content, children) ==
    CASE kind = TagMAIN -> Ok(<<>>, Chunk("MAIN", children))
      [] kind = TagPACK -> decoded("PACK", parse_PACK(chunk_content))
      [] kind = TagSIZE -> decoded("SIZE", parse_SIZE(chunk_content))
      [] kind = TagXYZI -> decoded("XYZI", parse_XYZI(chunk_content))
      [] kind = TagRGBA -> decoded("RGBA", parse_RGBA(chunk_content))
      [] kind = TagMATT -> decoded("MATT", parse_MATT(chunk_content))
      [] kind = TagMATL -> decoded("MATL", parse_MATL(chunk_content))
      [] kind = TagrOBJ -> decoded("rOBJ", parse_rOBJ(chunk_content))
      [] kind = TagrCAM -> decoded("rCAM", parse_rCAM(chunk_content))
      [] kind = TagIMAP -> decoded("IMAP", parse_IMAP(chunk_content))
      [] kind = TagNOTE -> decoded("NOTE", parse_NOTE(chunk_content))
      [] kind = TagnTRN -> decoded("nTRN", parse_nTRN(chunk_content))
      [] kind = TagnGRP -> decoded("nGRP", parse_nGRP(chunk_content))
      [] kind = TagnSHP -> decoded("nSHP", parse_nSHP(chunk_content))
      [] kind = TagLAYR -> decoded("LAYR", parse_LAYR(chunk_content))
      [] OTHER -> Ok(<<>>, Chunk("Unknown",
                        [kind |-> kind, contents |-> chunk_content,
                         children |-> children]))

\* The result of parse_chunk also reports, for every call that returned Ok
\* (itself and the calls nested in its children range), the header lengths
\* it printed and the number of bytes between its input and its remainder,
\* and, as depth, the most activations of parse_chunk that were on the call
\* stack at once, this call's own included.
OkChunk(rest, val, spans, depth) ==
    [ok |-> TRUE, rest |-> rest, val |-> val, spans |-> spans, depth |-> depth]
ErrChunk(kind, spans, depth) ==
    [ok |-> FALSE, err |-> kind, spans |-> spans, depth |-> depth]

Max(a, b) == IF a >= b THEN a ELSE b

RECURSIVE parse_chunk(_)
RECURSIVE chunk_children(_, _)
RECURSIVE chunk_match(_, _, _)
RECURSIVE many0_chunk(_, _, _, _)
RECURSIVE many0_next(_, _, _, _, _)

\* nom::multi::many0(parse_chunk): the first Err::Error ends the loop and
\* the chunks collected so far are returned with the unparsed remainder
many0_chunk(i, acc, spans, depth) ==
    many0_next(i, acc, spans, depth, parse_chunk(i))

\* many0 after one more call of parse_chunk has returned r
many0_next(i, acc, spans, depth, r) ==
    IF ~r.ok THEN OkChunk(i, acc, spans \o r.spans, Max(depth, r.depth))
    ELSE IF Len(r.rest) = Len(i)
    THEN ErrChunk("Many0", spans \o r.spans, Max(depth, r.depth))
    ELSE many0_chunk(r.rest, Append(acc, r.val), spans \o r.spans,
                     Max(depth, r.depth))

\* parse_chunk from the match on: c is what the matched arm evaluates to
chunk_result(input, h, children, c) ==
    IF ~c.ok THEN ErrChunk(c.err, children.spans, 1 + children.depth)
    ELSE OkChunk(h.rest, c.val,
                 <<[kind |-> h.val.kind,
                    content_size |-> h.val.content_size,
                    children_size |-> h.val.children_size,
                    consumed |-> Len(input) - Len(h.rest)]>> \o children.spans,
                 1 + children.depth)

\* parse_chunk once `children` is bound
chunk_match(input, h, children) ==
    IF ~children.ok
    THEN ErrChunk(children.err, children.spans, 1 + children.depth)
    ELSE chunk_result(input, h, children,
                      dispatch(h.val.kind, h.val.chunk_content, children.val))

\* parse_chunk once the header is read and the two slices are taken
chunk_children(input, h) ==
    IF ~h.ok THEN ErrChunk(h.err, <<>>, 1)
    ELSE chunk_match(input, h,
                     IF h.val.children_size > 0
                     THEN many0_chunk(h.val.child_content, <<>>, <<>>, 0)
                     ELSE OkChunk(<<>>, <<>>, <<>>, 0))

parse_chunk(input) == chunk_children(input, chunk_slices(input))

----------------------------------------------------------------------------
(* VoxFile and the assembly pass of parse_file *)

from_u32(val) ==
    [name |-> None,
     r |-> val[1] \div 256,
     g |-> val[1] % 256,
     b |-> val[2] \div 256,
     a |-> val[2] % 256]

DEFAULT_PALETTE_U32 == <<
    <<0, 0>>, <<65535, 65535>>, <<65484, 65535>>, <<65433, 65535>>,
    <<65382, 65535>>, <<65331, 65535>>, <<65280, 65535>>, <<65535, 52479>>,
    <<65484, 52479>>, <<65433, 52479>>, <<65382, 52479>>, <<65331, 52479>>,
    <<65280, 52479>>, <<65535, 39423>>, <<65484, 39423>>, <<65433, 39423>>,
    <<65382, 39423>>, <<65331, 39423>>, <<65280, 39423>>, <<65535, 26367>>,
    <<65484, 26367>>, <<65433, 26367>>, <<65382, 26367>>, <<65331, 26367>>,
    <<65280, 26367>>, <<65535, 13311>>, <<65484, 13311>>, <<65433, 13311>>,
    <<65382, 13311>>, <<65331, 13311>>, <<65280, 13311>>, <<65535, 255>>,
    <<65484, 255>>, <<65433, 255>>, <<65382, 255>>, <<65331, 255>>,
    <<65280, 255>>, <<65535, 65484>>, <<65484, 65484>>, <<65433, 65484>>,
    <<65382, 65484>>, <<65331, 65484>>, <<65280, 65484>>, <<65535, 52428>>,
    <<65484, 52428>>, <<65433, 52428>>, <<65382, 52428>>, <<65331, 52428>>,
    <<65280, 52428>>, <<65535, 39372>>, <<65484, 39372>>, <<65433, 39372>>,
    <<65382, 39372>>, <<65331, 39372>>, <<65280, 39372>>, <<65535, 26316>>,
    <<65484, 26316>>, <<65433, 26316>>, <<65382, 26316>>, <<65331, 26316>>,
    <<65280, 26316>>, <<65535, 13260>>, <<65484, 13260>>, <<65433, 13260>>,
    <<65382, 13260>>, <<65331, 13260>>, <<65280, 13260>>, <<65535, 204>>,
    <<65484, 204>>, <<65433, 204>>, <<65382, 204>>, <<65331, 204>>,
    <<65280, 204>>, <<65535, 65433>>, <<65484, 65433>>, <<65433, 65433>>,
    <<65382, 65433>>, <<65331, 65433>>, <<65280, 65433>>, <<65535, 52377>>,
    <<65484, 52377>>, <<65433, 52377>>, <<65382, 52377>>, <<65331, 52377>>,
    <<65280, 52377>>, <<65535, 39321>>, <<65484, 39321>>, <<65433, 39321>>,
    <<65382, 39321>>, <<65331, 39321>>, <<65280, 39321>>, <<65535, 26265>>,
    <<65484, 26265>>, <<65433, 26265>>, <<65382, 26265>>, <<65331, 26265>>,
    <<65280, 26265>>, <<65535, 13209>>, <<65484, 13209>>, <<65433, 13209>>,
    <<65382, 13209>>, <<65331, 13209>>, <<65280, 13209>>, <<65535, 153>>,
    <<65484, 153>>, <<65433, 153>>, <<65382, 153>>, <<65331, 153>>,
    <<65280, 153>>, <<65535, 65382>>, <<65484, 65382>>, <<65433, 65382>>,
    <<65382, 65382>>, <<65331, 65382>>, <<65280, 65382>>, <<65535, 52326>>,
    <<65484, 52326>>, <<65433, 52326>>, <<65382, 52326>>, <<65331, 52326>>,
    <<65280, 52326>>, <<65535, 39270>>, <<65484, 39270>>, <<65433, 39270>>,
    <<65382, 39270>>, <<65331, 39270>>, <<65280, 39270>>, <<65535, 26214>>,
    <<65484, 26214>>, <<65433, 26214>>, <<65382, 26214>>, <<65331, 26214>>,
    <<65280, 26214>>, <<65535, 13158>>, <<65484, 13158>>, <<65433, 13158>>,
    <<65382, 13158>>, <<65331, 13158>>, <<65280, 13158>>, <<65535, 102>>,
    <<65484, 102>>, <<65433, 102>>, <<65382, 102>>, <<65331, 102>>,
    <<65280, 102>>, <<65535, 65331>>, <<65484, 65331>>, <<65433, 65331>>,
    <<65382, 65331>>, <<65331, 65331>>, <<65280, 65331>>, <<65535, 52275>>,
    <<65484, 52275>>, <<65433, 52275>>, <<65382, 52275>>, <<65331, 52275>>,
    <<65280, 52275>>, <<65535, 39219>>, <<65484, 39219>>, <<65433, 39219>>,
    <<65382, 39219>>, <<65331, 39219>>, <<65280, 39219>>, <<65535, 26163>>,
    <<65484, 26163>>, <<65433, 26163>>, <<65382, 26163>>, <<65331, 26163>>,
    <<65280, 26163>>, <<65535, 13107>>, <<65484, 13107>>, <<65433, 13107>>,
    <<65382, 13107>>, <<65331, 13107>>, <<65280, 13107>>, <<65535, 51>>,
    <<65484, 51>>, <<65433, 51>>, <<65382, 51>>, <<65331, 51>>,
    <<65280, 51>>, <<65535, 65280>>, <<65484, 65280>>, <<65433, 65280>>,
    <<65382, 65280>>, <<65331, 65280>>, <<65280, 65280>>, <<65535, 52224>>,
    <<65484, 52224>>, <<65433, 52224>>, <<65382, 52224>>, <<65331, 52224>>,
    <<65280, 52224>>, <<65535, 39168>>, <<65484, 39168>>, <<65433, 39168>>,
    <<65382, 39168>>, <<65331, 39168>>, <<65280, 39168>>, <<65535, 26112>>,
    <<65484, 26112>>, <<65433, 26112>>, <<65382, 26112>>, <<65331, 26112>>,
    <<65280, 26112>>, <<65535, 13056>>, <<65484, 13056>>, <<65433, 13056>>,
    <<65382, 13056>>, <<65331, 13056>>, <<65280, 13056>>, <<65535, 0>>,
    <<65484, 0>>, <<65433, 0>>, <<65382, 0>>, <<65331, 0>>,
    <<65280, 238>>, <<65280, 221>>, <<65280, 187>>, <<65280, 170>>,
    <<65280, 136>>, <<65280, 119>>, <<65280, 85>>, <<65280, 68>>,
    <<65280, 34>>, <<65280, 17>>, <<65280, 60928>>, <<65280, 56576>>,
    <<65280, 47872>>, <<65280, 43520>>, <<65280, 34816>>, <<65280, 30464>>,
    <<65280, 21760>>, <<65280, 17408>>, <<65280, 8704>>, <<65280, 4352>>,
    <<65518, 0>>, <<65501, 0>>, <<65467, 0>>, <<65450, 0>>,
    <<65416, 0>>, <<65399, 0>>, <<65365, 0>>, <<65348, 0>>,
    <<65314, 0>>, <<65297, 0>>, <<65518, 61166>>, <<65501, 56797>>,
    <<65467, 48059>>, <<65450, 43690>>, <<65416, 34952>>, <<65399, 30583>>,
    <<65365, 21845>>, <<65348, 17476>>, <<65314, 8738>>, <<65297, 4369>>
>>

DEFAULT_PALETTE == [k \in 1..256 |-> from_u32(DEFAULT_PALETTE_U32[k])]

VoxFileDefault ==
    [version |-> U32(150), models |-> <<>>, palette |-> DEFAULT_PALETTE,
     materials |-> <<>>, scenegraph |-> <<>>]

\* the locals of parse_file that the for loop updates
LoopInit ==
    [file |-> VoxFileDefault, model_id |-> 0, model_size |-> None,
     panicked |-> FALSE]

\* arm_SIZE that keeps a size that is already pending
arm_SIZE_keep_first(st, size) ==
    IF st.model_size = None THEN [st EXCEPT !.model_size = Some(size)] ELSE st

arm_SIZE(st, size) == [st EXCEPT !.model_size = Some(size)]

\* arm_XYZI that gives every model the id 0
arm_XYZI_same_id(st, voxels) ==
    IF st.model_size # None
    THEN [st EXCEPT
            !.file.models = Append(@, [id |-> st.model_id,
                                       size |-> st.model_size[1],
                                       voxels |-> voxels]),
            !.model_size = None]
    ELSE st

\* arm_XYZI that counts an XYZI without a pending size as a model id
arm_XYZI_count_unpaired(st, voxels) ==
    IF st.model_size # None
    THEN [st EXCEPT
            !.file.models = Append(@, [id |-> st.model_id,
                                       size |-> st.model_size[1],
                                       voxels |-> voxels]),
            !.model_id = @ + 1,
            !.model_size = None]
    ELSE [st EXCEPT !.model_id = @ + 1]

arm_XYZI(st, voxels) ==
    IF st.model_size # None
    THEN [st EXCEPT
            !.file.models = Append(@, [id |-> st.model_id,
                                       size |-> st.model_size[1],
                                       voxels |-> voxels]),
            !.model_id = @ + 1,
            !.model_size = None]
    ELSE st

\* arm_RGBA that keeps the palette of the first RGBA chunk
arm_RGBA_first_wins(st, colors) ==
    IF Len(colors) # 256 THEN [st EXCEPT !.panicked = TRUE]
    ELSE IF st.file.palette = DEFAULT_PALETTE
    THEN [st EXCEPT !.file.palette = colors]
    ELSE st

\* colors.try_into().unwrap(): Vec<Color> to [Color; 256]
arm_RGBA(st, colors) ==
    IF Len(colors) = 256
    THEN [st EXCEPT !.file.palette = colors]
    ELSE [st EXCEPT !.panicked = TRUE]

arm_MATT(st, material) ==
    [st EXCEPT !.file.materials = Append(@, [v |-> "V1", m |-> material])]

\* arm_MATL that replaces the material that has the same id
arm_MATL_by_id(st, material) ==
    LET same == {k \in DOMAIN st.file.materials :
                    st.file.materials[k].m.id = material.id}
    IN IF same = {}
       THEN [st EXCEPT !.file.materials = Append(@, [v |-> "V2", m |-> material])]
       ELSE [st EXCEPT !.file.materials =
                [k \in DOMAIN @ |-> IF k \in same
                                    THEN [v |-> "V2", m |-> material]
                                    ELSE @[k]]]

arm_MATL(st, material) ==
    [st EXCEPT !.file.materials = Append(@, [v |-> "V2", m |-> material])]

\* nTRN, nGRP, nSHP, LAYR: empty arms
arm_scene(st, child) == st

\* one iteration of `for child in children`
match_child(st, child) ==
    CASE child.kind = "MAIN" -> st
      [] child.kind = "SIZE" -> arm_SIZE(st, child.val)
      [] child.kind = "XYZI" -> arm_XYZI(st, child.val)
      [] child.kind = "PACK" -> st
      [] child.kind = "RGBA" -> arm_RGBA(st, child.val)
      [] child.kind = "MATT" -> arm_MATT(st, child.val)
      [] child.kind = "MATL" -> arm_MATL(st, child.val)
      [] child.kind \in {"rOBJ", "rCAM", "IMAP", "NOTE"} -> st
      [] child.kind \in {"nTRN", "nGRP", "nSHP", "LAYR"} -> arm_scene(st, child)
      [] child.kind = "Unknown" -> st

----------------------------------------------------------------------------
(* Rotation::to_matrix *)

Bit(x, k) == (x \div (2 ^ k)) % 2

\* a & m on u8
BitAnd(a, m) ==
    Bit(a, 0) * Bit(m, 0) + 2 * Bit(a, 1) * Bit(m, 1)
      + 4 * Bit(a, 2) * Bit(m, 2) + 8 * Bit(a, 3) * Bit(m, 3)
      + 16 * Bit(a, 4) * Bit(m, 4) + 32 * Bit(a, 5) * Bit(m, 5)
      + 64 * Bit(a, 6) * Bit(m, 6) + 128 * Bit(a, 7) * Bit(m, 7)

\* x >> n on u8
Shr(x, n) == x \div (2 ^ n)

\* the tuple (_01, _23, _4, _5, _6): in Rust `>>` binds tighter than `&`,
\* so each field is the mask applied to the shifted byte
rotation_fields(byte) ==
    <<BitAnd(3, Shr(byte, 0)), BitAnd(12, Shr(byte, 2)), BitAnd(16, Shr(byte, 3)),
      BitAnd(32, Shr(byte, 4)), BitAnd(64, Shr(byte, 5))>>

Panic(what) == [panicked |-> TRUE, what |-> what]

ZeroMatrix == [r \in 0..2 |-> [c \in 0..2 |-> 0]]

\* result[row][idx as usize] = 1.0 - sign as f32 * 2.0, on a matrix or on a
\* panic that has already happened; the f32 values are whole numbers
set_entry(m, row, idx, sign) ==
    IF m.panicked THEN m
    ELSE IF idx > 2 THEN Panic("index out of bounds")
    ELSE [panicked |-> FALSE,
          matrix |-> [m.matrix EXCEPT ![row][idx] = 1 - sign * 2]]

\* 3 - idx0 - idx1 on u8: with overflow checks (the debug profile) a
\* negative difference panics, without them (release) it wraps
idx2_of(f, checks) ==
    IF 3 - f[1] - f[2] >= 0 THEN 3 - f[1] - f[2]
    ELSE IF checks THEN -1
    ELSE (3 - f[1] - f[2]) % 256

\* to_matrix once the fields f and idx2 are known
matrix_of(f, idx2) ==
    IF idx2 < 0 THEN Panic("attempt to subtract with overflow")
    ELSE set_entry(
           set_entry(
             set_entry([panicked |-> FALSE, matrix |-> ZeroMatrix], 0, f[1], f[3]),
             1, f[2], f[4]),
           2, idx2, f[5])

fields_to_matrix(f, checks) == matrix_of(f, idx2_of(f, checks))

to_matrix(byte, checks) == fields_to_matrix(rotation_fields(byte), checks)

----------------------------------------------------------------------------
(* The head of parse_file: magic, version, root chunk, and the test that   *)
(* the root is MAIN                                                        *)

then_magic(p) == IF ~p.ok THEN p ELSE bind(p, tag(MAGIC_NUMBER, p.rest))

\* parse_chunk(input)? after the magic and the version
root_chunk(p) ==
    IF ~p.ok THEN ErrChunk(p.err, <<>>, 0) ELSE parse_chunk(p.rest)

\* if let Chunk::MAIN(children) = main ... else Err(Eof)
root_is_main(main) ==
    IF ~main.ok THEN main
    ELSE IF main.val.kind = "MAIN" THEN main
    ELSE ErrChunk("Eof", main.spans, main.depth)

parse_file_head(input) ==
    root_is_main(root_chunk(then_u32(then_magic(Start(input)))))

----------------------------------------------------------------------------
(* Input files: encoders of the byte layouts the decoders read *)

EncU32(v) == <<v[2] % 256, v[2] \div 256, v[1] % 256, v[1] \div 256>>

\* a number below 2^31 as a little-endian u32
LE32(n) == EncU32(U32(n))

Str(bytes) == LE32(Len(bytes)) \o bytes

Frame(t, payload, kids) ==
    t \o LE32(Len(payload)) \o LE32(Len(kids)) \o payload \o kids

EncSIZE(s) == EncU32(s.x) \o EncU32(s.y) \o EncU32(s.z)

RECURSIVE EncVoxels(_)
EncVoxels(vs) ==
    IF vs = <<>> THEN <<>>
    ELSE <<vs[1].x, vs[1].y, vs[1].z, vs[1].i>> \o EncVoxels(Tail(vs))

EncXYZI(n, vs) == LE32(n) \o EncVoxels(vs)

EncRGBA(cs) ==
    [j \in 1..(4 * Len(cs)) |->
        LET c == cs[((j - 1) \div 4) + 1] IN
        CASE (j - 1) % 4 = 0 -> c.r
          [] (j - 1) % 4 = 1 -> c.g
          [] (j - 1) % 4 = 2 -> c.b
          [] (j - 1) % 4 = 3 -> c.a]

\* what a frame is meant to decode to: kind, whether its payload satisfies
\* its decoder, and the decoded value
Desc(k, good, v) == [k |-> k, good |-> good, v |-> v]
Item(t, payload, d) == [tag |-> t, payload |-> payload, d |-> d]

TagABCD == <<65, 66, 67, 68>>

SizeA == [x |-> U32(2), y |-> U32(3), z |-> U32(4)]
\* (1, 1, 0xFFFF0100)
SizeB == [x |-> U32(1), y |-> U32(1), z |-> <<65535, 256>>]
VoxOne == <<[x |-> 1, y |-> 1, z |-> 1, i |-> 5]>>
VoxTwo == <<[x |-> 0, y |-> 255, z |-> 2, i |-> 1], [x |-> 3, y |-> 3, z |-> 3, i |-> 9]>>

ItSizeA == Item(TagSIZE, EncSIZE(SizeA), Desc("SIZE", TRUE, SizeA))
ItSizeB == Item(TagSIZE, EncSIZE(SizeB), Desc("SIZE", TRUE, SizeB))
ItSizeLong == Item(TagSIZE, EncSIZE(SizeA) \o <<7, 7, 7, 7>>, Desc("SIZE", TRUE, SizeA))
ItSizeShort == Item(TagSIZE, LE32(2) \o LE32(3), Desc("SIZE", FALSE, <<>>))
ItXyziOne == Item(TagXYZI, EncXYZI(1, VoxOne), Desc("XYZI", TRUE, VoxOne))
ItXyziTwo == Item(TagXYZI, EncXYZI(2, VoxTwo), Desc("XYZI", TRUE, VoxTwo))
ItXyziNone == Item(TagXYZI, EncXYZI(0, <<>>), Desc("XYZI", TRUE, <<>>))
ItPack == Item(TagPACK, LE32(1), Desc("PACK", TRUE, U32(1)))
\* four bytes that are no tag the decoder knows and are not UTF-8 either
TagRaw == <<255, 254, 0, 1>>

\* what a frame with an unrecognized tag is meant to be kept as
Kept(t, payload) == [kind |-> t, contents |-> payload]

ItUnknown == Item(TagABCD, <<9, 9>>, Desc("Unknown", TRUE, Kept(TagABCD, <<9, 9>>)))
ItUnknownRaw == Item(TagRaw, <<8>>, Desc("Unknown", TRUE, Kept(TagRaw, <<8>>)))

ColorsZero == [k \in 1..256 |-> [name |-> None, r |-> 0, g |-> 0, b |-> 0, a |-> 0]]
ColorsRamp == [k \in 1..256 |-> [name |-> None, r |-> k - 1, g |-> 256 - k,
                                 b |-> (3 * k) % 256, a |-> 255]]

ItRgbaZero == Item(TagRGBA, EncRGBA(ColorsZero), Desc("RGBA", TRUE, ColorsZero))
ItRgbaRamp == Item(TagRGBA, EncRGBA(ColorsRamp), Desc("RGBA", TRUE, ColorsRamp))
ItRgbaShort == Item(TagRGBA, SubSeq(EncRGBA(ColorsRamp), 1, 1020), Desc("RGBA", FALSE, <<>>))

\* "k", "v", "_name"
KeyK == <<107>>
ValV == <<118>>
KeyName == <<95, 110, 97, 109, 101>>

DictNone == <<>>
DictOne == (KeyK :> ValV)
DictTwo == (KeyName :> ValV) @@ (KeyK :> KeyK)
EncDictNone == LE32(0)
EncDictOne == LE32(1) \o Str(KeyK) \o Str(ValV)
EncDictTwo == LE32(2) \o Str(KeyName) \o Str(ValV) \o Str(KeyK) \o Str(KeyK)

\* f32 bit patterns of 0.5 and -1.0
HalfBits == <<16128, 0>>
MinusOneBits == <<49024, 0>>

MattA ==
    [id |-> U32(7), kind |-> U32(1), weight |-> MinusOneBits,
     plastic |-> Some(HalfBits), roughness |-> None, specular |-> Some(MinusOneBits),
     ior |-> None, attenuation |-> None, power |-> None, glow |-> None,
     is_total_power |-> FALSE]
EncMattA ==
    LE32(7) \o LE32(1) \o EncU32(MinusOneBits) \o LE32(5)
      \o EncU32(HalfBits) \o EncU32(MinusOneBits)

MatlA == [id |-> U32(7), properties |-> DictOne]
MatlB == [id |-> U32(9), properties |-> DictNone]

ItMattA == Item(TagMATT, EncMattA, Desc("MATT", TRUE, MattA))
ItMatlA == Item(TagMATL, LE32(7) \o EncDictOne, Desc("MATL", TRUE, MatlA))
ItMatlB == Item(TagMATL, LE32(9) \o EncDictNone, Desc("MATL", TRUE, MatlB))

ItTrn == Item(TagnTRN,
              LE32(3) \o EncDictOne \o LE32(4) \o EncU32(<<65535, 65535>>) \o LE32(0)
                \o LE32(1) \o EncDictTwo,
              Desc("nTRN", TRUE, U32(3)))
ItGrp == Item(TagnGRP, LE32(4) \o EncDictNone \o LE32(2) \o LE32(5) \o LE32(6),
              Desc("nGRP", TRUE, U32(4)))
ItShp == Item(TagnSHP, LE32(5) \o EncDictNone \o LE32(1) \o LE32(0) \o EncDictOne,
              Desc("nSHP", TRUE, U32(5)))
ItLayr == Item(TagLAYR, LE32(3) \o EncDictTwo \o EncU32(<<65535, 65535>>),
               Desc("LAYR", TRUE, U32(3)))
ItGrpShort == Item(TagnGRP, LE32(4) \o EncDictNone \o LE32(2) \o LE32(5),
                   Desc("nGRP", FALSE, <<>>))
ItObj == Item(TagrOBJ, EncDictTwo, Desc("rOBJ", TRUE, <<>>))
ItCam == Item(TagrCAM, LE32(1) \o EncDictOne, Desc("rCAM", TRUE, U32(1)))
ItNote == Item(TagNOTE, LE32(2) \o Str(KeyName) \o Str(<<>>), Desc("NOTE", TRUE, <<>>))
ItNoteBad == Item(TagNOTE, LE32(1) \o Str(<<255>>), Desc("NOTE", FALSE, <<>>))
ItImap == Item(TagIMAP, [k \in 1..256 |-> k - 1], Desc("IMAP", TRUE, <<>>))

\* container frames: their children range is filled in before they close
ItMain == Item(TagMAIN, <<>>, Desc("MAIN", TRUE, <<>>))
ItGroup == Item(TagABCD, <<9>>, Desc("Unknown", TRUE, Kept(TagABCD, <<9>>)))
ItSizeBox == Item(TagSIZE, EncSIZE(SizeB), Desc("SIZE", TRUE, SizeB))
ItSizeBoxShort == Item(TagSIZE, LE32(1), Desc("SIZE", FALSE, <<>>))

Scenarios ==
    {"head", "frame", "model", "palette", "material", "scene", "aux", "unknown"}

Leaves(sc) ==
    CASE sc = "head" -> {}
      [] sc = "frame" -> {ItSizeLong, ItSizeShort}
      [] sc = "model" -> {ItSizeA, ItSizeB, ItXyziOne, ItXyziTwo, ItMattA}
      [] sc = "palette" -> {ItRgbaZero, ItRgbaRamp, ItRgbaShort, ItPack}
      [] sc = "material" -> {ItMattA, ItMatlA, ItMatlB, ItSizeA, ItXyziNone}
      [] sc = "scene" -> {ItTrn, ItGrp, ItShp, ItLayr, ItGrpShort}
      [] sc = "aux" -> {ItObj, ItCam, ItNote, ItNoteBad, ItImap, ItMain, ItUnknown}
      [] sc = "unknown" -> {ItUnknown, ItUnknownRaw, ItSizeA, ItXyziOne, ItMatlA}

Boxes(sc) == IF sc = "frame" THEN {ItGroup, ItSizeBox} ELSE {}

Budget(sc) == IF sc = "frame" THEN MaxNested ELSE MaxFrames

Roots(sc) ==
    IF sc = "frame" THEN {ItMain, ItGroup, ItSizeBox, ItSizeBoxShort} ELSE {ItMain}

\* bytes left at the end of a children range that are not a chunk frame:
\* stray bytes, or a header whose content length exceeds what remains
TailJunk == <<0, 0, 0>>
TailOverrun == TagSIZE \o LE32(12) \o LE32(0) \o LE32(2)
Tails(sc) == IF sc = "frame" THEN {<<>>, TailJunk, TailOverrun} ELSE {<<>>}

----------------------------------------------------------------------------
(* State *)

VARIABLES
    scenario,     \* which family of chunk kinds the input file is built from
    body,         \* the children ranges being filled in, the root's first
    opened,       \* the container frames whose ranges body[2..] fill in
    sent,         \* what the frames of the root's range are meant to decode to
    used,         \* frames put into the file so far
    bad_decoder,  \* some frame's payload does not satisfy its decoder
    bad_range,    \* some children range ends in bytes that are not a frame
    root,         \* what the root frame is meant to decode to
    head_ok,      \* the file starts with the magic and is not cut short
    input,        \* the bytes handed to parse_file
    pc,           \* "build", "parse", "loop", "done", "panicked"
    children,     \* parse_file: the children of MAIN
    idx,          \* parse_file: position of the for loop in children
    st,           \* parse_file: file, model_id, model_size
    remainder,    \* parse_file: input left after the root chunk
    spans,        \* the parse_chunk calls that returned Ok
    depth,        \* most parse_chunk activations that were on the stack at once
    result,       \* what parse_file returned
    call,         \* the decoder called on its own, "none" while parse_file runs
    given,        \* what the argument of that call was encoded from
    arg,          \* the argument of that call
    ret           \* what that call returned, <<>> before it returns

vars == <<scenario, body, opened, sent, used, bad_decoder, bad_range, root,
          head_ok, input, pc, children, idx, st, remainder, spans, depth,
          result,
          call, given, arg, ret>>

build_vars == <<body, opened, sent, used, bad_decoder, bad_range>>
file_vars == <<root, head_ok, input>>
run_vars == <<children, idx, st, remainder, spans, depth, result>>
fn_vars == <<call, given, arg, ret>>

Init ==
    /\ scenario \in Scenarios
    /\ body = << <<>> >>
    /\ opened = <<>>
    /\ sent = <<>>
    /\ used = 0
    /\ bad_decoder = FALSE
    /\ bad_range = FALSE
    /\ root = ItMain.d
    /\ head_ok = TRUE
    /\ input = <<>>
    /\ pc = "build"
    /\ children = <<>>
    /\ idx = 1
    /\ st = LoopInit
    /\ remainder = <<>>
    /\ spans = <<>>
    /\ depth = 0
    /\ result = Err("None")
    /\ call = "none"
    /\ given = <<>>
    /\ arg = <<>>
    /\ ret = <<>>

----------------------------------------------------------------------------
(* Building the input file *)

\* a frame without children is appended to the range being filled in
AddLeaf(it) ==
    /\ pc = "build"
    /\ used < Budget(scenario)
    /\ body' = [body EXCEPT ![Len(body)] = @ \o Frame(it.tag, it.payload, <<>>)]
    /\ sent' = IF Len(body) = 1 THEN Append(sent, it.d) ELSE sent
    /\ used' = used + 1
    /\ bad_decoder' = (bad_decoder \/ ~it.d.good)
    /\ UNCHANGED <<scenario, opened, bad_range, pc>>
    /\ UNCHANGED file_vars
    /\ UNCHANGED run_vars
    /\ UNCHANGED fn_vars

\* a frame with a children range is begun
Open(it) ==
    /\ pc = "build"
    /\ used < Budget(scenario)
    /\ Len(body) < MaxDepth
    /\ body' = Append(body, <<>>)
    /\ opened' = Append(opened, it)
    /\ used' = used + 1
    /\ UNCHANGED <<scenario, sent, bad_decoder, bad_range, pc>>
    /\ UNCHANGED file_vars
    /\ UNCHANGED run_vars
    /\ UNCHANGED fn_vars

\* the innermost open frame is finished and appended to the enclosing range
Close(tail) ==
    /\ pc = "build"
    /\ Len(body) > 1
    /\ LET n == Len(body)
           it == opened[n - 1]
           f == Frame(it.tag, it.payload, body[n] \o tail)
       IN /\ body' = [SubSeq(body, 1, n - 1) EXCEPT ![n - 1] = @ \o f]
          /\ opened' = SubSeq(opened, 1, n - 2)
          /\ sent' = IF n = 2 THEN Append(sent, it.d) ELSE sent
          /\ bad_decoder' = (bad_decoder \/ ~it.d.good)
          /\ bad_range' = (bad_range \/ tail # <<>>)
    /\ UNCHANGED <<scenario, used, pc>>
    /\ UNCHANGED file_vars
    /\ UNCHANGED run_vars
    /\ UNCHANGED fn_vars

BadMagic == <<86, 79, 88, 33>>
Versions == {U32(150), <<65535, 200>>}
Trailing == <<1, 2>>
\* lengths a file is cut to: inside the magic, inside the version, inside
\* the root header
Cuts == {3, 6, 14}

\* the root frame is wrapped around the root's range and the file is complete
Seal(rt, tail, magic, version, trailing, cut) ==
    /\ pc = "build"
    /\ Len(body) = 1
    /\ LET whole == magic \o EncU32(version)
                      \o Frame(rt.tag, rt.payload, body[1] \o tail) \o trailing
       IN /\ input' = IF cut = 0 THEN whole ELSE SubSeq(whole, 1, cut)
          /\ head_ok' = (magic = MAGIC_NUMBER /\ cut = 0)
    /\ root' = rt.d
    /\ bad_decoder' = (bad_decoder \/ ~rt.d.good)
    /\ bad_range' = (bad_range \/ tail # <<>>)
    /\ pc' = "parse"
    /\ UNCHANGED <<scenario, body, opened, sent, used>>
    /\ UNCHANGED run_vars
    /\ UNCHANGED fn_vars

----------------------------------------------------------------------------
(* parse_file *)

\* parse_file from the for loop on, or its early return: r is what the
\* lines before the loop came to
AfterHead(r) ==
    /\ spans' = r.spans
    /\ depth' = r.depth
    /\ IF r.ok
       THEN /\ children' = r.val.val
            /\ remainder' = r.rest
            /\ st' = LoopInit
            /\ idx' = 1
            /\ pc' = "loop"
            /\ UNCHANGED result
       ELSE /\ result' = Err(r.err)
            /\ pc' = "done"
            /\ UNCHANGED <<children, remainder, st, idx>>

\* magic, version and root chunk; a root other than MAIN is an error
Parse ==
    /\ pc = "parse"
    /\ AfterHead(parse_file_head(input))
    /\ UNCHANGED scenario
    /\ UNCHANGED build_vars
    /\ UNCHANGED file_vars
    /\ UNCHANGED fn_vars

\* one iteration of the for loop over MAIN's children
LoopStep ==
    /\ pc = "loop"
    /\ idx <= Len(children)
    /\ st' = match_child(st, children[idx])
    /\ idx' = idx + 1
    /\ pc' = IF st'.panicked THEN "panicked" ELSE "loop"
    /\ UNCHANGED <<scenario, children, remainder, spans, depth, result>>
    /\ UNCHANGED build_vars
    /\ UNCHANGED file_vars
    /\ UNCHANGED fn_vars

\* Ok((input, file))
Return ==
    /\ pc = "loop"
    /\ idx > Len(children)
    /\ result' = Ok(remainder, st.file)
    /\ pc' = "done"
    /\ UNCHANGED <<scenario, children, idx, st, remainder, spans, depth>>
    /\ UNCHANGED build_vars
    /\ UNCHANGED file_vars
    /\ UNCHANGED fn_vars

Next ==
    \/ \E it \in Leaves(scenario) : AddLeaf(it)
    \/ \E it \in Boxes(scenario) : Open(it)
    \/ \E tail \in Tails(scenario) : Close(tail)
    \/ \E rt \in Roots(scenario), tail \in Tails(scenario) :
          /\ rt = ItMain \/ tail = <<>>
          /\ Seal(rt, tail, MAGIC_NUMBER, U32(150), <<>>, 0)
    \/ /\ scenario = "head"
       /\ \E magic \in {MAGIC_NUMBER, BadMagic}, version \in Versions,
             trailing \in {<<>>, Trailing}, cut \in Cuts \cup {0} :
             Seal(ItMain, <<>>, magic, version, trailing, cut)
    \/ Parse
    \/ LoopStep
    \/ Return

Spec == Init /\ [][Next]_vars

----------------------------------------------------------------------------
(* The payload decoders and Rotation::to_matrix called on their own: the   *)
(* argument is drawn in the initial state and one action applies the       *)
(* function to it.  parse_file does not run in these behaviours.           *)

decoder_vars ==
    <<scenario, body, opened, sent, used, bad_decoder, bad_range, root,
      head_ok, input, pc, children, idx, st, remainder, spans, depth,
      result>>

Idle ==
    /\ scenario = "none"
    /\ body = << <<>> >>
    /\ opened = <<>>
    /\ sent = <<>>
    /\ used = 0
    /\ bad_decoder = FALSE
    /\ bad_range = FALSE
    /\ root = ItMain.d
    /\ head_ok = TRUE
    /\ input = <<>>
    /\ pc = "idle"
    /\ children = <<>>
    /\ idx = 1
    /\ st = LoopInit
    /\ remainder = <<>>
    /\ spans = <<>>
    /\ depth = 0
    /\ result = Err("None")

\* MATT payloads: id, kind, weight, the property bits as a u32 whose second
\* byte is `high`, then 8 distinct 32-bit words, cut to `len` bytes
MattWords ==
    <<HalfBits, MinusOneBits, <<16256, 0>>, <<16384, 1>>, <<0, 0>>,
      <<32768, 0>>, <<17000, 513>>, <<65535, 65535>>>>

MattHead(bits, high) ==
    LE32(7) \o LE32(1) \o EncU32(MinusOneBits) \o <<bits, high, 0, 0>>

MattPayload(bits, high) ==
    MattHead(bits, high)
      \o EncU32(MattWords[1]) \o EncU32(MattWords[2]) \o EncU32(MattWords[3])
      \o EncU32(MattWords[4]) \o EncU32(MattWords[5]) \o EncU32(MattWords[6])
      \o EncU32(MattWords[7]) \o EncU32(MattWords[8])

MattGiven ==
    [fn : {"parse_MATT"}, bits : 0..255, high : {0, 255}, len : 0..MaxMattLen]

MattArg(g) ==
    SubSeq(MattPayload(g.bits, g.high) \o [i \in 1..g.len |-> 0], 1, g.len)

\* Dictionary payloads: the entry count, the entries, and sometimes a byte
\* after them; "é" is a key of two bytes
KeyAcute == <<195, 169>>
DictKeys == {KeyK, KeyName, KeyAcute}
DictValues == {ValV, <<>>}

RECURSIVE PairLists(_)
PairLists(n) ==
    IF n = 0 THEN {<<>>}
    ELSE PairLists(n - 1)
           \cup {Append(l, <<k, v>>) :
                    l \in {m \in PairLists(n - 1) : Len(m) = n - 1},
                    k \in DictKeys, v \in DictValues}

RECURSIVE EncPairs(_)
EncPairs(l) ==
    IF l = <<>> THEN <<>>
    ELSE Str(l[1][1]) \o Str(l[1][2]) \o EncPairs(Tail(l))

DictGiven ==
    [fn : {"parse_DICT"}, pairs : PairLists(MaxPairs), extra : {<<>>, <<1>>}]

DictArg(g) == LE32(Len(g.pairs)) \o EncPairs(g.pairs) \o g.extra

\* String payloads: `head` bytes of the length field `declared`, then, when
\* the field is whole, the bytes of a buffer
StrBuffers ==
    {<<>>, KeyK, KeyName, <<195, 169, 107>>, <<255, 107>>, <<237, 160, 128>>,
     <<226, 130, 172, 33>>, <<192, 128>>, <<240, 159, 146, 150>>, <<107, 128>>}

StrDeclared ==
    {U32(n) : n \in 0..MaxStrLen} \cup {<<1, 0>>, <<32768, 0>>, <<65535, 65535>>}

StrGiven ==
    [fn : {"parse_STRING"}, declared : StrDeclared, bytes : StrBuffers,
     head : {4}]
      \cup [fn : {"parse_STRING"}, declared : {U32(1)}, bytes : {KeyK},
            head : {0, 3}]

StrArg(g) ==
    IF g.head = 4 THEN EncU32(g.declared) \o g.bytes
    ELSE SubSeq(EncU32(g.declared), 1, g.head)

\* rotation bytes, and whether the build checks integer overflow
RotGiven == [fn : {"to_matrix"}, byte : 0..255, checks : BOOLEAN]

\* the orders in which a HashMap may hand out the keys of the mapping d
Iterations(d) ==
    {o \in [1..Cardinality(DOMAIN d) -> DOMAIN d] :
        \A i, j \in DOMAIN o : i # j => o[i] # o[j]}

InitFn ==
    /\ Idle
    /\ given \in MattGiven \cup DictGiven \cup StrGiven \cup RotGiven
    /\ call = given.fn
    /\ arg = CASE call = "parse_MATT" -> MattArg(given)
                [] call = "parse_DICT" -> DictArg(given)
                [] call = "parse_STRING" -> StrArg(given)
                [] call = "to_matrix" -> given.byte
    /\ ret = <<>>

Call_parse_MATT ==
    /\ call = "parse_MATT"
    /\ ret = <<>>
    /\ ret' = parse_MATT(arg)
    /\ UNCHANGED <<call, given, arg>>
    /\ UNCHANGED decoder_vars

\* parse_DICT, and the order in which the returned HashMap is then iterated
DictReturned(r, iter) == [ok |-> r.ok, rest |-> r.rest, val |-> r.val, iter |-> iter]

Call_parse_DICT ==
    /\ call = "parse_DICT"
    /\ ret = <<>>
    /\ \E iter \in Iterations(parse_DICT(arg).val) :
          ret' = DictReturned(parse_DICT(arg), iter)
    /\ UNCHANGED <<call, given, arg>>
    /\ UNCHANGED decoder_vars

Call_parse_STRING ==
    /\ call = "parse_STRING"
    /\ ret = <<>>
    /\ ret' = parse_STRING(arg)
    /\ UNCHANGED <<call, given, arg>>
    /\ UNCHANGED decoder_vars

Call_to_matrix ==
    /\ call = "to_matrix"
    /\ ret = <<>>
    /\ ret' = to_matrix(arg, given.checks)
    /\ UNCHANGED <<call, given, arg>>
    /\ UNCHANGED decoder_vars

NextFn ==
    \/ Call_parse_MATT
    \/ Call_parse_DICT
    \/ Call_parse_STRING
    \/ Call_to_matrix

SpecFn == InitFn /\ [][NextFn]_vars

----------------------------------------------------------------------------
(* What the file was built to hold, for the statements below *)

\* children of MAIN the for loop has gone through
Ran == idx - 1

\* positions, among those, of the frames of the kinds K
Pos(K) == {j \in 1..Ran : sent[j].k \in K}

Nth(S, k) == CHOOSE j \in S : Cardinality({i \in S : i < j}) = k - 1
LastIn(S) == CHOOSE j \in S : \A i \in S : i <= j

\* an XYZI is paired when a SIZE precedes it with no XYZI in between
PairedXYZI ==
    {j \in Pos({"XYZI"}) :
        \E i \in Pos({"SIZE"}) :
            i < j /\ \A m \in Pos({"XYZI"}) : ~(i < m /\ m < j)}

SizeFor(j) == sent[LastIn({i \in Pos({"SIZE"}) : i < j})].v

Returned == pc = "done" /\ result.ok

\* the loop sees the frames of the root's range in the order they were
\* written, up to the first one that does not parse
ChildrenAreSent ==
    /\ Len(children) <= Len(sent)
    /\ \A j \in 1..Len(children) : children[j].kind = sent[j].k

----------------------------------------------------------------------------
(* C1: every parse_chunk call that returns Ok consumes 12 + content-length *)
(* + children-length bytes of its input, for recognized and unknown tags,  *)
(* whatever the payload decoder read and whatever part of the children     *)
(* range the child parse used.                                             *)
C1_Framing ==
    \A k \in 1..Len(spans) :
        spans[k].consumed = 12 + spans[k].content_size + spans[k].children_size

\* a file was decoded in which an unknown-tag frame has a children range
\* that ends in bytes that are no frame, and a SIZE frame has a payload
\* longer than the 12 bytes parse_SIZE reads
C1_Witness ==
    /\ Returned
    /\ bad_range
    /\ \E k \in 1..Len(spans) :
          spans[k].kind = TagABCD /\ spans[k].children_size > 0
    /\ \E k \in 1..Len(spans) :
          spans[k].kind = TagSIZE /\ spans[k].content_size > 12

(* C2: when the payload decoder of some chunk of the file fails, at the    *)
(* root or nested in a children range, parse_file returns an error.        *)
C2_DecoderFailureAborts ==
    (pc = "done" /\ bad_decoder) => ~result.ok

(* C3: when some children range is not consumed exactly (stray bytes after *)
(* the last frame, or a child header that claims more than remains),       *)
(* parse_file returns an error.                                            *)
C3_InexactRangeAborts ==
    (pc = "done" /\ bad_range) => ~result.ok

(* C4: a file with the magic, a version and a well-formed root chunk whose *)
(* tag is not MAIN fails with NoMainChunk, which no truncated or malformed *)
(* file yields.                                                            *)
C4_NoMainChunk ==
    (pc = "done" /\ head_ok /\ root.k # "MAIN" /\ ~bad_decoder /\ ~bad_range)
        => (~result.ok /\ result.err = "NoMainChunk")

C6_Step ==
    (pc = "loop" /\ idx <= Len(children) /\ children[idx].kind = "XYZI"
       /\ st.model_size = None)
        => (st' = st /\ pc' = "loop")

C6_UnpairedXYZI == [][C6_Step]_vars

\* a decode returned in which an XYZI had no pending size and a later
\* XYZI was paired
C6_Witness ==
    /\ Returned
    /\ \E j \in Pos({"XYZI"}) \ PairedXYZI :
          \E k \in PairedXYZI : j < k
    /\ result.val.models[Len(result.val.models)].id = Len(result.val.models) - 1

(* C7: the pending size is that of the last SIZE when no XYZI came after   *)
(* it, and absent otherwise; every model has the size of the last SIZE     *)
(* before its XYZI; a decode that ends with a size pending succeeds and    *)
(* returns the models built so far.                                        *)
C7_PendingSize ==
    LET SX == Pos({"SIZE", "XYZI"}) IN
    /\ st.model_size = IF SX # {} /\ sent[LastIn(SX)].k = "SIZE"
                       THEN Some(sent[LastIn(SX)].v)
                       ELSE None
    /\ Len(st.file.models) <= Cardinality(Pos({"XYZI"}))
    /\ \A k \in 1..Len(st.file.models) :
          k <= Cardinality(PairedXYZI)
            /\ st.file.models[k].size = SizeFor(Nth(PairedXYZI, k))
    /\ (pc = "done" /\ st.model_size # None
          => result.ok /\ result.val.models = st.file.models)

\* SIZE, a different SIZE, XYZI, SIZE: one model, of the second size, and a
\* size left pending at the end
C7_Witness ==
    /\ Returned
    /\ Ran = 4
    /\ sent[1].k = "SIZE" /\ sent[2].k = "SIZE" /\ sent[1].v # sent[2].v
    /\ sent[3].k = "XYZI" /\ sent[4].k = "SIZE"
    /\ Len(result.val.models) = 1
    /\ result.val.models[1].size = sent[2].v
    /\ st.model_size # None

(* C8: the palette always has 256 entries; it is the default table while   *)
(* no RGBA chunk has arrived and afterwards the 256 colours of the last    *)
(* one, in payload order; the conversion to the array never panics.        *)
C8_Palette ==
    LET R == Pos({"RGBA"}) IN
    /\ pc # "panicked"
    /\ Len(st.file.palette) = 256
    /\ st.file.palette = IF R = {} THEN DEFAULT_PALETTE ELSE sent[LastIn(R)].v
    /\ (Returned => result.val.palette = st.file.palette)

\* two RGBA chunks were decoded, the last one all zero bytes
C8_Witness ==
    /\ Returned
    /\ Cardinality(Pos({"RGBA"})) >= 2
    /\ \E j \in Pos({"RGBA"}) : sent[j].v # ColorsZero
    /\ \A k \in 1..256 :
          /\ result.val.palette[k].r = 0 /\ result.val.palette[k].g = 0
          /\ result.val.palette[k].b = 0 /\ result.val.palette[k].a = 0

(* C9: the materials are one entry per MATT or MATL chunk gone through, in *)
(* arrival order, V1 for MATT and V2 for MATL, equal ids not merged.       *)
C9_Materials ==
    LET M == Pos({"MATT", "MATL"}) IN
    /\ Len(st.file.materials) = Cardinality(M)
    /\ \A k \in 1..Cardinality(M) :
          st.file.materials[k] =
              [v |-> IF sent[Nth(M, k)].k = "MATT" THEN "V1" ELSE "V2",
               m |-> sent[Nth(M, k)].v]
    /\ (Returned => result.val.materials = st.file.materials)

\* a V2, a V1 and a V2 material were decoded, two of them with the id 7,
\* with a chunk of another kind among them
C9_Witness ==
    /\ Returned
    /\ Ran = 4
    /\ Len(result.val.materials) = 3
    /\ result.val.materials[1].v = "V2"
    /\ result.val.materials[2].v = "V1"
    /\ result.val.materials[3].v = "V2"
    /\ result.val.materials[1].m.id = result.val.materials[2].m.id
    /\ result.val.materials[1].m.id = result.val.materials[3].m.id
    /\ sent[2].k \notin {"MATT", "MATL"}

(* C10: the returned Document's scene graph holds one entry per nTRN,      *)
(* nGRP, nSHP and LAYR child of MAIN.                                      *)
C10_SceneGraph ==
    Returned =>
        Len(result.val.scenegraph)
            = Cardinality(Pos({"nTRN", "nGRP", "nSHP", "LAYR"}))

(* C11: a frame whose tag is none of the recognized ones, whatever its     *)
(* four bytes are, is kept as an Unknown node with that tag, its payload   *)
(* bytes and its parsed children, and the decode does not fail; the loop   *)
(* iteration for an Unknown child of MAIN leaves the models, the palette   *)
(* and the materials as they are.                                          *)
C11_Node ==
    (pc = "done" /\ head_ok /\ root.k = "MAIN" /\ ~bad_decoder /\ ~bad_range)
        => /\ result.ok
           /\ Len(children) = Len(sent)
           /\ \A j \in 1..Len(sent) :
                 sent[j].k = "Unknown"
                    => /\ children[j].kind = "Unknown"
                       /\ children[j].val.kind = sent[j].v.kind
                       /\ children[j].val.contents = sent[j].v.contents
                       /\ Len(children[j].val.children) <= used
                       /\ scenario # "frame" => children[j].val.children = <<>>

C11_Step ==
    (pc = "loop" /\ idx <= Len(children) /\ children[idx].kind = "Unknown")
        => (st'.file = st.file /\ pc' = "loop")

C11_UnknownChunk == []C11_Node /\ [][C11_Step]_vars

(* C12: parse_MATT succeeds exactly when at least 16 + 4 * (number of set  *)
(* bits among 0..6) bytes are given; then optional field k (plastic,       *)
(* roughness, specular, ior, attenuation, power, glow) is present exactly  *)
(* when bit k is set, the present fields are the consecutive 32-bit words  *)
(* after the property bits in that order, the remainder starts right after *)
(* the last of them, and is_total_power is bit 7, which takes no bytes.    *)
(* With the bits 0x05 plastic and specular are present, the rest absent.   *)
MattBit(g, k) == (g.bits \div (2 ^ k)) % 2 = 1

MattNeed(g) == 16 + 4 * Cardinality({k \in 0..6 : MattBit(g, k)})

MattField(m, k) ==
    CASE k = 0 -> m.plastic
      [] k = 1 -> m.roughness
      [] k = 2 -> m.specular
      [] k = 3 -> m.ior
      [] k = 4 -> m.attenuation
      [] k = 5 -> m.power
      [] k = 6 -> m.glow

C12_MattFields ==
    (call = "parse_MATT" /\ ret # <<>>)
        => /\ ret.ok <=> given.len >= MattNeed(given)
           /\ ret.ok =>
                /\ \A k \in 0..6 :
                      MattField(ret.val, k) =
                          IF MattBit(given, k)
                          THEN Some(MattWords[
                                    1 + Cardinality({j \in 0..(k - 1) :
                                                        MattBit(given, j)})])
                          ELSE None
                /\ ret.val.is_total_power = MattBit(given, 7)
                /\ ret.rest = SubSeq(arg, MattNeed(given) + 1, given.len)
                /\ given.bits = 5 =>
                      /\ ret.val.plastic # None /\ ret.val.specular # None
                      /\ ret.val.roughness = None /\ ret.val.ior = None
                      /\ ret.val.attenuation = None /\ ret.val.power = None
                      /\ ret.val.glow = None /\ ~ret.val.is_total_power

\* the bits 0x05 followed by exactly two floats were decoded
C12_Witness ==
    /\ call = "parse_MATT"
    /\ given.bits = 5 /\ given.len = 24
    /\ ret # <<>> /\ ret.ok
    /\ ret.val.plastic = Some(HalfBits)
    /\ ret.val.specular = Some(MinusOneBits)
    /\ ret.rest = <<>>

(* C13: parse_DICT on a payload of n entries yields a mapping that holds   *)
(* the n (key, value) pairs of the payload, in payload order and with the  *)
(* exact bytes of each string; no entries give the empty mapping.          *)
C13_DictOrder ==
    (call = "parse_DICT" /\ ret # <<>>)
        => /\ ret.ok
           /\ Len(ret.iter) = Len(given.pairs)
           /\ \A i \in 1..Len(given.pairs) :
                 /\ i <= Len(ret.iter)
                 /\ ret.iter[i] = given.pairs[i][1]
                 /\ ret.val[ret.iter[i]] = given.pairs[i][2]
           /\ ret.rest = given.extra

(* C14: parse_STRING returns an error (Eof, no panic, nothing read beyond  *)
(* the buffer) when the declared length exceeds the bytes that follow the  *)
(* length field, and an error (MapRes) when the declared bytes are not     *)
(* well-formed UTF-8; otherwise it returns exactly the declared bytes and  *)
(* the remainder starts right after them.                                  *)

\* the byte strings, among the prefixes of the buffers, that are UTF-8 text
Texts ==
    {SubSeq(KeyName, 1, n) : n \in 0..5}
      \cup {KeyK, <<195, 169>>, <<195, 169, 107>>, <<226, 130, 172>>,
            <<226, 130, 172, 33>>, <<240, 159, 146, 150>>}

StrFits(g) ==
    g.head = 4 /\ g.declared[1] = 0 /\ g.declared[2] <= Len(g.bytes)

StrText(g) == SubSeq(g.bytes, 1, g.declared[2])

C14_String ==
    (call = "parse_STRING" /\ ret # <<>>)
        => /\ ~StrFits(given) => (~ret.ok /\ ret.err = "Eof")
           /\ (StrFits(given) /\ StrText(given) \notin Texts)
                 => (~ret.ok /\ ret.err = "MapRes")
           /\ (StrFits(given) /\ StrText(given) \in Texts)
                 => /\ ret.ok
                    /\ ret.val = StrText(given)
                    /\ ret.rest = SubSeq(given.bytes, given.declared[2] + 1,
                                         Len(given.bytes))

\* a declared length of 0xFFFFFFFF before a single byte was refused
C14_Witness ==
    /\ call = "parse_STRING"
    /\ given.declared = <<65535, 65535>> /\ given.bytes = KeyK /\ given.head = 4
    /\ ret # <<>> /\ ~ret.ok

(* C15: the version of the returned Document is the little-endian u32 in   *)
(* bytes 4..8 of the input.                                                *)
C15_Version ==
    Returned =>
        result.val.version
            = <<input[7] + 256 * input[8], input[5] + 256 * input[6]>>

(* C16: for a rotation byte whose bits 0-1 (i0) and bits 2-3 (i1) are      *)
(* distinct values in 0..2, to_matrix does not panic and returns the       *)
(* matrix whose only non-zero entries are row 0 column i0, row 1 column i1 *)
(* and row 2 column 3 - i0 - i1, each +1 when its sign bit (4, 5, 6) is 0  *)
(* and -1 when it is 1; the byte 1 | 2 << 2 | 1 << 5 | 1 << 6 gives the    *)
(* rows (0,1,0), (0,0,-1), (-1,0,0).                                       *)
RotI0(byte) == byte % 4
RotI1(byte) == (byte \div 4) % 4

RotExpected(byte) ==
    [r \in 0..2 |-> [c \in 0..2 |->
        IF c = (CASE r = 0 -> RotI0(byte)
                  [] r = 1 -> RotI1(byte)
                  [] r = 2 -> 3 - RotI0(byte) - RotI1(byte))
        THEN 1 - 2 * ((byte \div (2 ^ (4 + r))) % 2)
        ELSE 0]]

C16_Rotation ==
    (call = "to_matrix" /\ ret # <<>>
       /\ RotI0(arg) # RotI1(arg) /\ RotI0(arg) <= 2 /\ RotI1(arg) <= 2)
        => /\ ~ret.panicked
           /\ ret.matrix = RotExpected(arg)
           /\ arg = 105 =>
                 /\ ret.matrix[0] = [c \in 0..2 |-> IF c = 1 THEN 1 ELSE 0]
                 /\ ret.matrix[1] = [c \in 0..2 |-> IF c = 2 THEN -1 ELSE 0]
                 /\ ret.matrix[2] = [c \in 0..2 |-> IF c = 0 THEN -1 ELSE 0]

(* C17: decoding enforces a maximum chunk-nesting depth, so that the       *)
(* number of parse_chunk activations on the stack at once stays below a    *)
(* constant whatever the input, deeper files being refused.  The decoder   *)
(* names no such constant; the statement is made for the most lenient      *)
(* limit the files here can exceed: they nest up to MaxDepth + 1 frames,   *)
(* the limit is MaxDepth.                                                  *)
C17_DepthLimit == depth <= MaxDepth

====
